---- MODULE Spec2Model ----
(***************************************************************************)
(* Placeholder / fixup protocol of src/server.py: the HTMLPagelet          *)
(* hierarchy (Literal, Triggered, Multi), the PageletWriter and the        *)
(* finalization check of the request handler.                              *)
(*                                                                         *)
(* Text.  A str or a bytes value is a sequence of tokens.  A token is a    *)
(* string of one or more characters.  The characters the encoders of the   *)
(* program act on (< > & " ' \ newline, and the non-ASCII U+00E9) always  *)
(* stand alone as tokens in the inputs, so an encoder is a map over        *)
(* tokens; every other token contains none of them.  The two UTF-8 bytes   *)
(* of U+00E9 are the tokens "0xC3" and "0xA9".                            *)
(*                                                                         *)
(* A buffer is the sequence of the values passed to buffer.write, one      *)
(* element (a chunk) per call.                                             *)
(***************************************************************************)
EXTENDS Integers, Sequences, FiniteSets, TLC

VARIABLES
    loaded,                          \* TriggeredHTMLPagelet.__loaded, per pagelet
    placeheld_pagelets,              \* PageletWriter.__placeheld_pagelets
    next_pagelet_placeholder_index,  \* PageletWriter.__next_pagelet_placeholder_index
    pagelet_placeholder_indexes,     \* PageletWriter.__pagelet_placeholder_indexes
    buffer,                          \* the output stream (self.wfile)
    status,                          \* "open", "closed" (end of document written), or the exception raised
    renders,                         \* number of write_pagelet_in_place calls so far
    last,                            \* the last call made: [op, arg]
    pass                             \* the write_fixups call in progress, when it runs step by step

vars == <<loaded, placeheld_pagelets, next_pagelet_placeholder_index,
          pagelet_placeholder_indexes, buffer, status, renders, last, pass>>

-----------------------------------------------------------------------------
(* Bounds *)

MaxRenders == 2

-----------------------------------------------------------------------------
(* The pagelets of a session.  A pagelet is constructed from pagelets that *)
(* already exist, so the references between pagelets form no cycle.       *)

Pagelets ==
    [p \in {"LitA", "LitB", "T2", "C", "T1", "D", "T3",
            "pagelet_a", "pagelet_b_1_html", "pagelet_b_2_html", "pagelet_b_3_html",
            "pagelet_b_1", "pagelet_b_2", "pagelet_b_3", "pagelet_b_head",
            "pagelet_b_tail", "pagelet_b_multi", "pagelet_b", "pagelet_c"} |->
        CASE p = "LitA" -> [kind |-> "Literal", html |-> <<"A">>]
          [] p = "LitB" -> [kind |-> "Literal",
                            html |-> <<"<", "/script", ">", "\"", "\\", "\n", "U+00E9", "B">>]
          [] p = "T2"   -> [kind |-> "Triggered", pagelet |-> "LitB"]
          [] p = "C"    -> [kind |-> "Multi", pagelets |-> <<"LitA", "T2">>]
          [] p = "T1"   -> [kind |-> "Triggered", pagelet |-> "C"]
          [] p = "D"    -> [kind |-> "Multi", pagelets |-> <<"T2", "T1">>]
          [] p = "T3"   -> [kind |-> "Triggered", pagelet |-> "T1"]
          \* The pagelets do_GET constructs.
          [] p = "pagelet_a" ->
                [kind |-> "Literal",
                 html |-> <<"<", "h2", ">", "Pagelet A", "<", "/h2", ">", "\n",
                            "<", "p", ">", "This is pagelet A.">>]
          [] p = "pagelet_b_1_html" ->
                [kind |-> "Literal", html |-> <<"<", "li value=1", ">", "Pagelet B 1">>]
          [] p = "pagelet_b_2_html" ->
                [kind |-> "Literal", html |-> <<"<", "li value=2", ">", "Pagelet B 2">>]
          [] p = "pagelet_b_3_html" ->
                [kind |-> "Literal", html |-> <<"<", "li value=3", ">", "Pagelet B 3">>]
          [] p = "pagelet_b_1" -> [kind |-> "Triggered", pagelet |-> "pagelet_b_1_html"]
          [] p = "pagelet_b_2" -> [kind |-> "Triggered", pagelet |-> "pagelet_b_2_html"]
          [] p = "pagelet_b_3" -> [kind |-> "Triggered", pagelet |-> "pagelet_b_3_html"]
          [] p = "pagelet_b_head" ->
                [kind |-> "Literal",
                 html |-> <<"<", "h2 id=pagelet_b", ">", "Pagelet B", "<", "/h2", ">", "\n",
                            "<", "script", ">", "console.log(document.getElementById(",
                            "'", "pagelet_b", "'", ") ? ", "'", "OK", "'", " : ",
                            "'", "FAIL", "'", ");", "<", "/script", ">", "\n",
                            "<", "style", ">", "p { font-style: italic; }",
                            "<", "/style", ">", "\n",
                            "<", "p", ">", "This is pagelet B containing three subpagelets:",
                            "\n", "<", "ol", ">">>]
          [] p = "pagelet_b_tail" -> [kind |-> "Literal", html |-> <<"<", "/ol", ">">>]
          [] p = "pagelet_b_multi" ->
                [kind |-> "Multi",
                 pagelets |-> <<"pagelet_b_head", "pagelet_b_1", "pagelet_b_2",
                                "pagelet_b_3", "pagelet_b_tail">>]
          [] p = "pagelet_b" -> [kind |-> "Triggered", pagelet |-> "pagelet_b_multi"]
          [] p = "pagelet_c" ->
                [kind |-> "Literal",
                 html |-> <<"<", "h2", ">", "Pagelet C", "<", "/h2", ">", "\n",
                            "<", "p", ">", "This is pagelet C.">>]]

Pagelet == DOMAIN Pagelets

TriggeredPagelets == {p \in Pagelet : Pagelets[p].kind = "Triggered"}

\* The pagelets the caller passes to write_pagelet_in_place.
Roots == {"LitA", "T2", "T1", "D", "T3"}

\* The pagelets of the caller's session.
SessionPagelets == {"LitA", "LitB", "T2", "C", "T1", "D", "T3"}

\* The Triggered pagelets of the caller's session, the ones it can signal.
SessionTriggered == {"T2", "T1", "T3"}

\* The number of filler elements do_GET writes after the head.
NumSpans == 100

-----------------------------------------------------------------------------
(* Text helpers *)

\* The value of body for the value of e, with e evaluated once.
Eval(e, body(_)) == CHOOSE r \in {body(x) : x \in {e}} : TRUE

\* The chunks lo .. hi joined.  The range is halved, which keeps the depth
\* of the evaluation logarithmic in its length.
RECURSIVE ConcatRange(_, _, _)
ConcatRange(chunks, lo, hi) ==
    IF lo > hi THEN <<>>
    ELSE IF lo = hi THEN chunks[lo]
    ELSE Eval((lo + hi) \div 2,
              LAMBDA mid : ConcatRange(chunks, lo, mid) \o ConcatRange(chunks, mid + 1, hi))

ConcatFrom(chunks, i) == ConcatRange(chunks, i, Len(chunks))

\* BytesIO.getvalue(): the chunks written, joined.
Concat(chunks) == Eval(chunks, LAMBDA v : ConcatFrom(v, 1))

RECURSIVE FlatMapRange(_, _, _, _)
FlatMapRange(f(_), s, lo, hi) ==
    IF lo > hi THEN <<>>
    ELSE IF lo = hi THEN f(s[lo])
    ELSE Eval((lo + hi) \div 2,
              LAMBDA mid : FlatMapRange(f, s, lo, mid) \o FlatMapRange(f, s, mid + 1, hi))

FlatMapFrom(f(_), s, i) == FlatMapRange(f, s, i, Len(s))

\* The results of f on the tokens of s, joined.
FlatMap(f(_), s) == Eval(s, LAMBDA v : FlatMapFrom(f, v, 1))

Digit(d) ==
    CASE d = 0 -> "0" [] d = 1 -> "1" [] d = 2 -> "2" [] d = 3 -> "3" [] d = 4 -> "4"
      [] d = 5 -> "5" [] d = 6 -> "6" [] d = 7 -> "7" [] d = 8 -> "8" [] d = 9 -> "9"

\* '{}'.format(n) for a non-negative int: its decimal digits.
RECURSIVE format(_)
format(n) ==
    IF n < 10 THEN <<Digit(n)>> ELSE format(n \div 10) \o <<Digit(n % 10)>>

\* str.encode('utf-8')
utf8_encode_char(c) == IF c = "U+00E9" THEN <<"0xC3", "0xA9">> ELSE <<c>>

encode(s) == FlatMap(utf8_encode_char, s)

\* What the byte at position i decodes to: the two bytes of U+00E9 give the
\* character at the first and nothing at the second.
decode_at(b, i) ==
    IF i < Len(b) /\ b[i] = "0xC3" /\ b[i + 1] = "0xA9" THEN <<"U+00E9">>
    ELSE IF i > 1 /\ b[i] = "0xA9" /\ b[i - 1] = "0xC3" THEN <<>>
    ELSE <<b[i]>>

decode_from(b, i) ==
    Eval([k \in 1..Len(b) |-> decode_at(b, k)],
         LAMBDA parts : ConcatRange(parts, i, Len(parts)))

\* bytes.decode('utf-8')
decode(b) == Eval(b, LAMBDA v : decode_from(v, 1))

\* html.escape(s, quote=True)
html_escape_char(c) ==
    CASE c = "&"  -> <<"&amp;">>
      [] c = "<"  -> <<"&lt;">>
      [] c = ">"  -> <<"&gt;">>
      [] c = "\"" -> <<"&quot;">>
      [] c = "'"  -> <<"&#x27;">>
      [] OTHER    -> <<c>>

html_escape(s) == FlatMap(html_escape_char, s)

\* json.dumps(s) of a str (ensure_ascii=True): the quoted, escaped literal.
json_escape_char(c) ==
    CASE c = "\"" -> <<"\\\"">>
      [] c = "\\" -> <<"\\\\">>
      [] c = "\n" -> <<"\\n">>
      [] c = "U+00E9"  -> <<"\\u00e9">>
      [] OTHER    -> <<c>>

json_dumps(s) == <<"\"">> \o FlatMap(json_escape_char, s) \o <<"\"">>

\* str.replace('<', r'\u003c')
replace_lt_char(c) == IF c = "<" THEN <<"\\u003c">> ELSE <<c>>

replace_lt(s) == FlatMap(replace_lt_char, s)

-----------------------------------------------------------------------------
(* HTMLPagelet and its subclasses.  A method that takes the index factory  *)
(* of the writer takes the writer's index map and counter here and returns *)
(* them with its result:                                                   *)
(*   [buffer, pending, indexes, next]                                      *)

\* dict.get(key): the value in a sequence of length one, or <<>> for None.
dict_get(d, k) == IF k \in DOMAIN d THEN <<d[k]>> ELSE <<>>

dict_set(d, k, v) == [x \in DOMAIN d \cup {k} |-> IF x = k THEN v ELSE d[x]]

\* Mutant: the lookup tests the index for truth ("if placeholder_index:"),
\* so index 0 reads as missing.
pagelet_placeholder_index_truthy(pagelet, indexes, next) ==
    LET placeholder_index == dict_get(indexes, pagelet) IN
    IF placeholder_index # <<>> /\ placeholder_index[1] # 0
    THEN [index |-> placeholder_index[1], indexes |-> indexes, next |-> next]
    ELSE [index |-> next,
          indexes |-> dict_set(indexes, pagelet, next),
          next |-> next + 1]

\* Mutant: the counter is incremented before it is read, so indices start
\* at 1.
pagelet_placeholder_index_preincrement(pagelet, indexes, next) ==
    LET placeholder_index == dict_get(indexes, pagelet) IN
    IF placeholder_index # <<>>
    THEN [index |-> placeholder_index[1], indexes |-> indexes, next |-> next]
    ELSE [index |-> next + 1,
          indexes |-> dict_set(indexes, pagelet, next + 1),
          next |-> next + 1]

\* Mutant: the new index is returned but not stored in the map.
pagelet_placeholder_index_no_store(pagelet, indexes, next) ==
    LET placeholder_index == dict_get(indexes, pagelet) IN
    IF placeholder_index # <<>>
    THEN [index |-> placeholder_index[1], indexes |-> indexes, next |-> next]
    ELSE [index |-> next, indexes |-> indexes, next |-> next + 1]

\* PageletWriter.__pagelet_placeholder_index
pagelet_placeholder_index(pagelet, indexes, next) ==
    LET placeholder_index == dict_get(indexes, pagelet) IN
    IF placeholder_index # <<>>
    THEN [index |-> placeholder_index[1], indexes |-> indexes, next |-> next]
    ELSE [index |-> next,
          indexes |-> dict_set(indexes, pagelet, next),
          next |-> next + 1]

placeholder_id(placeholder_index) ==
    <<"__HTMLPagelet_placeholder_">> \o format(placeholder_index)

\* The bytes write_placeholder passes to buffer.write.
placeholder_markup(placeholder_index) ==
    encode(<<"<", "div style=", "\"", "display:none;", "\"", " id=">>
           \o html_escape(placeholder_id(placeholder_index))
           \o <<">", "<", "/div", ">">>)

write_placeholder(buf, placeholder_index) ==
    Append(buf, placeholder_markup(placeholder_index))

\* Mutant: a Triggered pagelet never reports its content as loaded.
is_content_loaded_never(p, ld) == Pagelets[p].kind # "Triggered"

\* Mutant: a Triggered pagelet always reports its content as loaded.
is_content_loaded_always(p, ld) == TRUE

is_content_loaded(p, ld) ==
    CASE Pagelets[p].kind = "Literal"   -> TRUE
      [] Pagelets[p].kind = "Triggered" -> ld[p]
      [] Pagelets[p].kind = "Multi"     -> TRUE

RECURSIVE write_in_place(_, _, _, _, _)
RECURSIVE Multi_write_children(_, _, _)

Literal_write_in_place(p, buf, indexes, next, ld) ==
    [buffer |-> Append(buf, encode(Pagelets[p].html)),
     pending |-> <<>>, indexes |-> indexes, next |-> next]

\* Mutant: the loaded branch is missing; the pagelet always writes its
\* placeholder.
Triggered_write_in_place_always_placeholder(p, buf, indexes, next, ld) ==
    Eval(pagelet_placeholder_index(p, indexes, next),
         LAMBDA a : [buffer |-> write_placeholder(buf, a.index),
                     pending |-> <<p>>, indexes |-> a.indexes, next |-> a.next])

Triggered_write_in_place(p, buf, indexes, next, ld) ==
    IF ld[p]
    THEN write_in_place(Pagelets[p].pagelet, buf, indexes, next, ld)
    ELSE Eval(pagelet_placeholder_index(p, indexes, next),
              LAMBDA a : [buffer |-> write_placeholder(buf, a.index),
                          pending |-> <<p>>, indexes |-> a.indexes, next |-> a.next])

\* Mutant: the pending list of a child is put in front of the list so far.
Multi_write_children_prepend(children, acc, ld) ==
    IF children = <<>> THEN acc
    ELSE Eval(write_in_place(Head(children), acc.buffer, acc.indexes, acc.next, ld),
              LAMBDA r :
                Eval([buffer |-> r.buffer, pending |-> r.pending \o acc.pending,
                      indexes |-> r.indexes, next |-> r.next],
                     LAMBDA next_acc : Multi_write_children(Tail(children), next_acc, ld)))

\* The loop of MultiHTMLPagelet.write_in_place over the remaining children;
\* acc holds the buffer, the pending list and the index state so far.
Multi_write_children(children, acc, ld) ==
    IF children = <<>> THEN acc
    ELSE Eval(write_in_place(Head(children), acc.buffer, acc.indexes, acc.next, ld),
              LAMBDA r :
                Eval([buffer |-> r.buffer, pending |-> acc.pending \o r.pending,
                      indexes |-> r.indexes, next |-> r.next],
                     LAMBDA next_acc : Multi_write_children(Tail(children), next_acc, ld)))

Multi_write_in_place(p, buf, indexes, next, ld) ==
    Multi_write_children(Pagelets[p].pagelets,
        [buffer |-> buf, pending |-> <<>>, indexes |-> indexes, next |-> next], ld)

write_in_place(p, buf, indexes, next, ld) ==
    CASE Pagelets[p].kind = "Literal"   -> Literal_write_in_place(p, buf, indexes, next, ld)
      [] Pagelets[p].kind = "Triggered" -> Triggered_write_in_place(p, buf, indexes, next, ld)
      [] Pagelets[p].kind = "Multi"     -> Multi_write_in_place(p, buf, indexes, next, ld)

\* The parts of the script of write_fixup around its two format fields.
js_head == "(function () { function fixScriptElements(root) {...} var placeholder = document.getElementById("
js_mid == "); var html = "
js_tail == "; ... placeholderParent.replaceChild(replacement, placeholder); ... }());"

\* Mutant: the literal is embedded without the replacement of "<".
fixup_html_unescaped(captured) == json_dumps(decode(captured))

\* The string literal write_fixup embeds for the captured content.
fixup_html(captured) == replace_lt(json_dumps(decode(captured)))

fixup_markup(placeholder_index, captured) ==
    encode(<<"<", "script", ">", js_head>>
           \o json_dumps(placeholder_id(placeholder_index))
           \o <<js_mid>>
           \o fixup_html(captured)
           \o <<js_tail, "<", "/script", ">">>)

\* Mutant: the fixup is written under a fresh index, not the pagelet's own.
write_fixup_fresh_index(p, buf, placeholder_index, indexes, next, ld) ==
    Eval(write_in_place(p, <<>>, indexes, next, ld),
         LAMBDA temp :
           [buffer |-> Append(buf, fixup_markup(temp.next, Concat(temp.buffer))),
            pending |-> temp.pending, indexes |-> temp.indexes, next |-> temp.next])

write_fixup(p, buf, placeholder_index, indexes, next, ld) ==
    Eval(write_in_place(p, <<>>, indexes, next, ld),
         LAMBDA temp :
           [buffer |-> Append(buf, fixup_markup(placeholder_index, Concat(temp.buffer))),
            pending |-> temp.pending, indexes |-> temp.indexes, next |-> temp.next])

-----------------------------------------------------------------------------
(* PageletWriter *)

\* Mutant: only the first pagelet of the pending list is added.
add_all_first_only(set, pending) ==
    IF pending = <<>> THEN set ELSE set \cup {Head(pending)}

RECURSIVE add_all(_, _)
add_all(set, pending) ==
    IF pending = <<>> THEN set ELSE add_all(set \cup {Head(pending)}, Tail(pending))

\* Mutant: the pagelet is not removed from the pending set after its fixup.
write_fixups_step_no_remove(w, pagelet, ld) ==
    IF w.error # "None" THEN w
    ELSE IF ~is_content_loaded(pagelet, ld) THEN w
    ELSE IF pagelet \notin DOMAIN w.indexes THEN [w EXCEPT !.error = "KeyError"]
    ELSE Eval(write_fixup(pagelet, w.buffer, w.indexes[pagelet], w.indexes, w.next, ld),
              LAMBDA r :
                [w EXCEPT !.buffer = r.buffer, !.indexes = r.indexes, !.next = r.next,
                          !.placeheld = add_all(w.placeheld, r.pending)])

\* Mutant: a recursive drain.  The pagelets a fixup reveals as pending get
\* their fixup in the same pass, on the readiness of their parent.
RECURSIVE drain(_, _, _)
drain(w, pending, ld) ==
    IF pending = <<>> THEN w
    ELSE Eval(write_fixup(Head(pending), w.buffer, w.indexes[Head(pending)],
                          w.indexes, w.next, ld),
              LAMBDA r :
                Eval([w EXCEPT !.buffer = r.buffer, !.indexes = r.indexes, !.next = r.next,
                               !.placeheld = add_all(w.placeheld \ {Head(pending)}, r.pending)],
                     LAMBDA next_w : drain(next_w, Tail(pending), ld)))

write_fixups_step_drain(w, pagelet, ld) ==
    IF w.error # "None" THEN w
    ELSE IF ~is_content_loaded(pagelet, ld) THEN w
    ELSE IF pagelet \notin DOMAIN w.indexes THEN [w EXCEPT !.error = "KeyError"]
    ELSE Eval(write_fixup(pagelet, w.buffer, w.indexes[pagelet], w.indexes, w.next, ld),
              LAMBDA r :
                drain([w EXCEPT !.buffer = r.buffer, !.indexes = r.indexes, !.next = r.next,
                                !.placeheld = add_all(w.placeheld \ {pagelet}, r.pending)],
                      r.pending, ld))

\* The body of the loop of write_fixups for one pagelet of the snapshot.
\* w is the writer and the output: [buffer, placeheld, indexes, next, error].
\* Mutant: the test of is_content_loaded is missing; every pagelet of the
\* snapshot gets a fixup.
write_fixups_step_unconditional(w, pagelet, ld) ==
    IF w.error # "None" THEN w
    ELSE IF pagelet \notin DOMAIN w.indexes THEN [w EXCEPT !.error = "KeyError"]
    ELSE Eval(write_fixup(pagelet, w.buffer, w.indexes[pagelet], w.indexes, w.next, ld),
              LAMBDA r :
                IF pagelet \notin w.placeheld
                THEN [w EXCEPT !.buffer = r.buffer, !.indexes = r.indexes, !.next = r.next,
                               !.error = "KeyError"]
                ELSE [w EXCEPT !.buffer = r.buffer, !.indexes = r.indexes, !.next = r.next,
                               !.placeheld = add_all(w.placeheld \ {pagelet}, r.pending)])

write_fixups_step(w, pagelet, ld) ==
    IF w.error # "None" THEN w
    ELSE IF ~is_content_loaded(pagelet, ld) THEN w
    ELSE IF pagelet \notin DOMAIN w.indexes THEN [w EXCEPT !.error = "KeyError"]
    ELSE Eval(write_fixup(pagelet, w.buffer, w.indexes[pagelet], w.indexes, w.next, ld),
              LAMBDA r :
                IF pagelet \notin w.placeheld
                THEN [w EXCEPT !.buffer = r.buffer, !.indexes = r.indexes, !.next = r.next,
                               !.error = "KeyError"]
                ELSE [w EXCEPT !.buffer = r.buffer, !.indexes = r.indexes, !.next = r.next,
                               !.placeheld = add_all(w.placeheld \ {pagelet}, r.pending)])

\* Mutant: the loop returns after the first pagelet of the snapshot.
write_fixups_loop_first_only(w, snapshot, ld) ==
    IF snapshot = <<>> THEN w
    ELSE write_fixups_step(w, Head(snapshot), ld)

RECURSIVE write_fixups_loop(_, _, _)
write_fixups_loop(w, snapshot, ld) ==
    IF snapshot = <<>> THEN w
    ELSE Eval(write_fixups_step(w, Head(snapshot), ld),
              LAMBDA next_w : write_fixups_loop(next_w, Tail(snapshot), ld))

\* list(set): the elements of the set in some order.
Orders(set) ==
    {s \in [1..Cardinality(set) -> set] : \A i, j \in DOMAIN s : i # j => s[i] # s[j]}

has_pending_fixups == placeheld_pagelets # {}


\* No write_fixups call is running step by step.
no_pass ==
    [pc |-> "idle", snapshot |-> <<>>, pagelet |-> "None", placeholder_index |-> 0,
     work |-> <<>>, temp_buffer |-> <<>>, pending_pagelets |-> <<>>]

-----------------------------------------------------------------------------

Init ==
    /\ loaded = [p \in TriggeredPagelets |-> FALSE]
    /\ placeheld_pagelets = {}
    /\ next_pagelet_placeholder_index = 0
    /\ pagelet_placeholder_indexes = [p \in {} |-> 0]
    /\ buffer = <<>>
    /\ status = "open"
    /\ renders = 0
    /\ last = [op |-> "init", arg |-> "None"]
    /\ pass = no_pass

\* Mutant: the signal flips the flag, so a second signal takes it back.
set_loaded_toggle(p) ==
    /\ status = "open"
    /\ p \in TriggeredPagelets
    /\ loaded' = [loaded EXCEPT ![p] = ~loaded[p]]
    /\ last' = [op |-> "set_loaded", arg |-> p]
    /\ UNCHANGED <<placeheld_pagelets, next_pagelet_placeholder_index,
                   pagelet_placeholder_indexes, buffer, status, renders, pass>>

set_loaded(p) ==
    /\ status = "open"
    /\ p \in TriggeredPagelets
    /\ loaded' = [loaded EXCEPT ![p] = TRUE]
    /\ last' = [op |-> "set_loaded", arg |-> p]
    /\ UNCHANGED <<placeheld_pagelets, next_pagelet_placeholder_index,
                   pagelet_placeholder_indexes, buffer, status, renders, pass>>

write_pagelet_in_place(pagelet) ==
    /\ status = "open"
    /\ \E r \in {write_in_place(pagelet, buffer, pagelet_placeholder_indexes,
                                  next_pagelet_placeholder_index, loaded)} :
       /\ buffer' = r.buffer
       /\ pagelet_placeholder_indexes' = r.indexes
       /\ next_pagelet_placeholder_index' = r.next
       /\ placeheld_pagelets' = add_all(placeheld_pagelets, r.pending)
    /\ renders' = renders + 1
    /\ last' = [op |-> "write_pagelet_in_place", arg |-> pagelet]
    /\ UNCHANGED <<loaded, status, pass>>

write_fixups ==
    /\ status = "open"
    /\ \E snapshot \in Orders(placeheld_pagelets) :
       \E w \in {write_fixups_loop(
                      [buffer |-> buffer, placeheld |-> placeheld_pagelets,
                       indexes |-> pagelet_placeholder_indexes,
                       next |-> next_pagelet_placeholder_index, error |-> "None"],
                      snapshot, loaded)} :
         /\ buffer' = w.buffer
         /\ placeheld_pagelets' = w.placeheld
         /\ pagelet_placeholder_indexes' = w.indexes
         /\ next_pagelet_placeholder_index' = w.next
         /\ status' = IF w.error = "None" THEN status ELSE w.error
    /\ last' = [op |-> "write_fixups", arg |-> "None"]
    /\ UNCHANGED <<loaded, renders, pass>>

\* The bytes of the end of the document.
end_of_document == encode(<<"<", "/body", ">", "\n", "<", "/html", ">", "\n">>)

\* Mutant: the closing markup is written without the check.
finalize_unchecked ==
    /\ status = "open"
    /\ status' = "closed"
    /\ buffer' = Append(buffer, end_of_document)
    /\ last' = [op |-> "finalize", arg |-> "None"]
    /\ UNCHANGED <<loaded, placeheld_pagelets, next_pagelet_placeholder_index,
                   pagelet_placeholder_indexes, renders, pass>>

\* The end of do_GET: the check of the pending set, then the closing markup.
finalize ==
    /\ status = "open"
    /\ IF has_pending_fixups
       THEN /\ status' = "Fixups not all resolved"
            /\ UNCHANGED buffer
       ELSE /\ status' = "closed"
            /\ buffer' = Append(buffer, end_of_document)
    /\ last' = [op |-> "finalize", arg |-> "None"]
    /\ UNCHANGED <<loaded, placeheld_pagelets, next_pagelet_placeholder_index,
                   pagelet_placeholder_indexes, renders, pass>>

-----------------------------------------------------------------------------
(* do_GET, statement by statement.  The handler runs alone on the writer  *)
(* it creates; its position is given by the call it made last, the length *)
(* of the output and the pagelets it has signalled.                        *)

\* The bytes of the head of the document.
document_head ==
    encode(<<"<", "!DOCTYPE html", ">", "\n", "<", "html", ">", "\n",
             "<", "head", ">", "\n", "<", "title", ">", "Pagelets example",
             "<", "/title", ">", "\n", "<", "meta charset=utf-8", ">", "\n",
             "<", "/head", ">", "\n", "<", "body", ">", "\n",
             "<", "h1", ">", "Pagelets example", "<", "/h1", ">", "\n",
             "<", "p", ">", "This page demonstrates pagelets.", "\n">>)

filler_span == encode(<<"<", "span", ">", "<", "/span", ">">>)

do_GET_write_head ==
    /\ status = "open"
    /\ last.op = "init"
    /\ buffer' = Append(buffer, document_head)
    /\ last' = [op |-> "write", arg |-> "head"]
    /\ UNCHANGED <<loaded, placeheld_pagelets, next_pagelet_placeholder_index,
                   pagelet_placeholder_indexes, status, renders, pass>>

do_GET_write_span ==
    /\ status = "open"
    /\ last.op = "write"
    /\ Len(buffer) < 1 + NumSpans
    /\ buffer' = Append(buffer, filler_span)
    /\ last' = [op |-> "write", arg |-> "span"]
    /\ UNCHANGED <<loaded, placeheld_pagelets, next_pagelet_placeholder_index,
                   pagelet_placeholder_indexes, status, renders, pass>>

do_GET_pagelet_a ==
    /\ last.op = "write"
    /\ Len(buffer) = 1 + NumSpans
    /\ write_pagelet_in_place("pagelet_a")

do_GET_pagelet_b ==
    /\ last = [op |-> "write_pagelet_in_place", arg |-> "pagelet_a"]
    /\ write_pagelet_in_place("pagelet_b")

do_GET_pagelet_c ==
    /\ last = [op |-> "write_pagelet_in_place", arg |-> "pagelet_b"]
    /\ write_pagelet_in_place("pagelet_c")

do_GET_set_loaded_b ==
    /\ last = [op |-> "write_pagelet_in_place", arg |-> "pagelet_c"]
    /\ set_loaded("pagelet_b")

do_GET_set_loaded_b_3 ==
    /\ last.op = "write_fixups"
    /\ loaded["pagelet_b"] /\ ~loaded["pagelet_b_3"]
    /\ set_loaded("pagelet_b_3")

do_GET_set_loaded_b_2 ==
    /\ last.op = "write_fixups"
    /\ loaded["pagelet_b_3"] /\ ~loaded["pagelet_b_2"]
    /\ set_loaded("pagelet_b_2")

do_GET_set_loaded_b_1 ==
    /\ last.op = "write_fixups"
    /\ loaded["pagelet_b_2"] /\ ~loaded["pagelet_b_1"]
    /\ set_loaded("pagelet_b_1")

\* Each of the four write_fixups calls follows a set_loaded call.
do_GET_write_fixups ==
    /\ last.op = "set_loaded"
    /\ write_fixups

do_GET_finalize ==
    /\ last.op = "write_fixups"
    /\ loaded["pagelet_b_1"]
    /\ finalize

do_GET ==
    \/ do_GET_write_head
    \/ do_GET_write_span
    \/ do_GET_pagelet_a
    \/ do_GET_pagelet_b
    \/ do_GET_pagelet_c
    \/ do_GET_set_loaded_b
    \/ do_GET_set_loaded_b_3
    \/ do_GET_set_loaded_b_2
    \/ do_GET_set_loaded_b_1
    \/ do_GET_write_fixups
    \/ do_GET_finalize

GetSpec == Init /\ [][do_GET]_vars

-----------------------------------------------------------------------------
(* An arbitrary caller of the writer.                                      *)

Next ==
    \/ \E p \in Roots : renders < MaxRenders /\ write_pagelet_in_place(p)
    \/ \E p \in SessionTriggered : set_loaded(p)
    \/ write_fixups
    \/ finalize

Spec == Init /\ [][Next]_vars

LiveNext ==
    \/ \E p \in Roots : renders < MaxRenders /\ write_pagelet_in_place(p)
    \/ \E p \in SessionTriggered : set_loaded(p)
    \/ write_fixups

\* The caller keeps the session open, signals every pagelet and keeps
\* resolving.
LiveSpec ==
    /\ Init /\ [][LiveNext]_vars
    /\ \A p \in SessionTriggered : WF_vars(set_loaded(p))
    /\ WF_vars(write_fixups)

-----------------------------------------------------------------------------
(* Reading the output: placeholder markers and fixup blocks.               *)

IsFixupBlock(chunk) == Len(chunk) >= 4 /\ chunk[4] = js_head

\* The tokens of a fixup block before the string literal of its content.
FixupPrefix(i) ==
    encode(<<"<", "script", ">", js_head>> \o json_dumps(placeholder_id(i)) \o <<js_mid>>)

IsFixupFor(chunk, i) ==
    /\ IsFixupBlock(chunk)
    /\ Len(chunk) >= Len(FixupPrefix(i))
    /\ SubSeq(chunk, 1, Len(FixupPrefix(i))) = FixupPrefix(i)

\* The string literal a fixup block embeds, between "var html = " and the
\* rest of the script.
FixupPayload(chunk) ==
    LET start == CHOOSE k \in 1..Len(chunk) : chunk[k] = js_mid IN
    SubSeq(chunk, start + 1, Len(chunk) - 4)

\* A placeholder marker as it reads inside the string literal of a fixup.
MarkerInPayload(i) ==
    LET lit == fixup_html(placeholder_markup(i)) IN SubSeq(lit, 2, Len(lit) - 1)

\* The places of the output where the marker of index i occurs: <<j, k>> is
\* token k of chunk j.
MarkerOccurrences(i) ==
    LET direct == placeholder_markup(i)
        quoted == MarkerInPayload(i)
        n == Len(quoted) IN
    UNION {IF IsFixupBlock(buffer[j])
           THEN {<<j, k>> : k \in {k \in 1..(Len(buffer[j]) - n + 1) :
                                     /\ buffer[j][k] = quoted[1]
                                     /\ SubSeq(buffer[j], k, k + n - 1) = quoted}}
           ELSE IF buffer[j] = direct THEN {<<j, 1>>} ELSE {} : j \in DOMAIN buffer}

FixupBlocks(i) == {j \in DOMAIN buffer : IsFixupFor(buffer[j], i)}

AssignedIndexes == 0..(next_pagelet_placeholder_index - 1)

\* Number of placeholder markers written for pagelet u, and of fixups.
MarkerCount(u) ==
    IF u \in DOMAIN pagelet_placeholder_indexes
    THEN Cardinality(MarkerOccurrences(pagelet_placeholder_indexes[u])) ELSE 0

FixupCount(u) ==
    IF u \in DOMAIN pagelet_placeholder_indexes
    THEN Cardinality(FixupBlocks(pagelet_placeholder_indexes[u])) ELSE 0

\* No pending pagelet has had set_loaded called on it.
NoPendingLoaded ==
    \A u \in placeheld_pagelets : Pagelets[u].kind = "Triggered" /\ ~loaded[u]


-----------------------------------------------------------------------------
(* write_fixups step by step, with set_loaded called from another source  *)
(* between its steps.  One thread calls the writer, so no other writer     *)
(* call starts while a pass runs.  A step is a stretch of the code that    *)
(* reads the loaded flag of at most one pagelet, once.                     *)
(*                                                                         *)
(* pass.pc is "idle" outside a pass, "loop" at the head of the loop of     *)
(* write_fixups and "write_fixup" inside write_fixup.  The nested          *)
(* write_in_place calls of write_fixup are unfolded into pass.work, the    *)
(* pagelets still to be written, in the order the calls are made.          *)

\* for pagelet in list(self.__placeheld_pagelets): the snapshot is taken.
write_fixups_begin ==
    /\ status = "open"
    /\ pass.pc = "idle"
    /\ \E snapshot \in Orders(placeheld_pagelets) :
          pass' = [no_pass EXCEPT !.pc = "loop", !.snapshot = snapshot]
    /\ UNCHANGED <<loaded, placeheld_pagelets, next_pagelet_placeholder_index,
                   pagelet_placeholder_indexes, buffer, status, renders, last>>

\* Mutant: the loop does not test is_content_loaded.
write_fixups_next_unchecked ==
    /\ status = "open"
    /\ pass.pc = "loop"
    /\ pass.snapshot # <<>>
    /\ LET pagelet == Head(pass.snapshot) IN
       IF pagelet \notin DOMAIN pagelet_placeholder_indexes
       THEN /\ status' = "KeyError"
            /\ pass' = no_pass
       ELSE /\ pass' = [pass EXCEPT !.pc = "write_fixup",
                                    !.snapshot = Tail(pass.snapshot),
                                    !.pagelet = pagelet,
                                    !.placeholder_index = pagelet_placeholder_indexes[pagelet],
                                    !.work = <<pagelet>>,
                                    !.temp_buffer = <<>>,
                                    !.pending_pagelets = <<>>]
            /\ UNCHANGED status
    /\ UNCHANGED <<loaded, placeheld_pagelets, next_pagelet_placeholder_index,
                   pagelet_placeholder_indexes, buffer, renders, last>>

\* The next pagelet of the snapshot: the test of is_content_loaded and, for
\* a loaded pagelet, the index lookup and the entry into write_fixup.
write_fixups_next ==
    /\ status = "open"
    /\ pass.pc = "loop"
    /\ pass.snapshot # <<>>
    /\ LET pagelet == Head(pass.snapshot) IN
       IF ~is_content_loaded(pagelet, loaded)
       THEN /\ pass' = [pass EXCEPT !.snapshot = Tail(pass.snapshot)]
            /\ UNCHANGED status
       ELSE IF pagelet \notin DOMAIN pagelet_placeholder_indexes
       THEN /\ status' = "KeyError"
            /\ pass' = no_pass
       ELSE /\ pass' = [pass EXCEPT !.pc = "write_fixup",
                                    !.snapshot = Tail(pass.snapshot),
                                    !.pagelet = pagelet,
                                    !.placeholder_index = pagelet_placeholder_indexes[pagelet],
                                    !.work = <<pagelet>>,
                                    !.temp_buffer = <<>>,
                                    !.pending_pagelets = <<>>]
            /\ UNCHANGED status
    /\ UNCHANGED <<loaded, placeheld_pagelets, next_pagelet_placeholder_index,
                   pagelet_placeholder_indexes, buffer, renders, last>>

\* One write_in_place call of the rendering into the temporary buffer.  A
\* Literal pagelet writes its bytes; a Multi pagelet goes on with its
\* children; a Triggered pagelet reads its flag and goes on with the wrapped
\* pagelet or writes its placeholder and is returned as pending.
write_in_place_step ==
    /\ status = "open"
    /\ pass.pc = "write_fixup"
    /\ pass.work # <<>>
    /\ LET p == Head(pass.work)
           rest == Tail(pass.work) IN
       CASE Pagelets[p].kind = "Literal" ->
              /\ pass' = [pass EXCEPT !.work = rest,
                                      !.temp_buffer = Append(@, encode(Pagelets[p].html))]
              /\ UNCHANGED <<pagelet_placeholder_indexes, next_pagelet_placeholder_index>>
         [] Pagelets[p].kind = "Multi" ->
              /\ pass' = [pass EXCEPT !.work = Pagelets[p].pagelets \o rest]
              /\ UNCHANGED <<pagelet_placeholder_indexes, next_pagelet_placeholder_index>>
         [] Pagelets[p].kind = "Triggered" ->
              IF loaded[p]
              THEN /\ pass' = [pass EXCEPT !.work = <<Pagelets[p].pagelet>> \o rest]
                   /\ UNCHANGED <<pagelet_placeholder_indexes,
                                  next_pagelet_placeholder_index>>
              ELSE \E a \in {pagelet_placeholder_index(p, pagelet_placeholder_indexes,
                                                       next_pagelet_placeholder_index)} :
                   /\ pass' = [pass EXCEPT !.work = rest,
                                           !.temp_buffer = write_placeholder(@, a.index),
                                           !.pending_pagelets = Append(@, p)]
                   /\ pagelet_placeholder_indexes' = a.indexes
                   /\ next_pagelet_placeholder_index' = a.next
    /\ UNCHANGED <<loaded, placeheld_pagelets, buffer, status, renders, last>>

\* The end of write_fixup and the rest of the loop body: the script is
\* written, the pagelet is removed from the pending set and the pagelets the
\* rendering returned are added.
write_fixup_finish ==
    /\ status = "open"
    /\ pass.pc = "write_fixup"
    /\ pass.work = <<>>
    /\ buffer' = Append(buffer, fixup_markup(pass.placeholder_index,
                                             Concat(pass.temp_buffer)))
    /\ IF pass.pagelet \notin placeheld_pagelets
       THEN /\ status' = "KeyError"
            /\ pass' = no_pass
            /\ UNCHANGED placeheld_pagelets
       ELSE /\ placeheld_pagelets' = add_all(placeheld_pagelets \ {pass.pagelet},
                                             pass.pending_pagelets)
            /\ pass' = [no_pass EXCEPT !.pc = "loop", !.snapshot = pass.snapshot]
            /\ UNCHANGED status
    /\ UNCHANGED <<loaded, next_pagelet_placeholder_index,
                   pagelet_placeholder_indexes, renders, last>>

\* The snapshot is exhausted: write_fixups returns.
write_fixups_return ==
    /\ status = "open"
    /\ pass.pc = "loop"
    /\ pass.snapshot = <<>>
    /\ pass' = no_pass
    /\ last' = [op |-> "write_fixups", arg |-> "None"]
    /\ UNCHANGED <<loaded, placeheld_pagelets, next_pagelet_placeholder_index,
                   pagelet_placeholder_indexes, buffer, status, renders>>

\* The pagelets the caller renders in the step-by-step specification.
ConcRoots == {"D", "T3"}

ConcNext ==
    \/ \E p \in ConcRoots :
          pass.pc = "idle" /\ renders < MaxRenders /\ write_pagelet_in_place(p)
    \/ \E p \in SessionTriggered : set_loaded(p)
    \/ write_fixups_begin
    \/ write_fixups_next
    \/ write_in_place_step
    \/ write_fixup_finish
    \/ write_fixups_return
    \/ pass.pc = "idle" /\ finalize

ConcSpec == Init /\ [][ConcNext]_vars

-----------------------------------------------------------------------------
(* Claims *)

\* C1: at-most-once resolution.  No pagelet ever has more than one fixup
\* block in the output, and a pagelet that has its fixup is not a member of
\* the pending set in any later state.
C1_AtMostOnceResolution ==
    \A u \in Pagelet :
        /\ FixupCount(u) <= 1
        /\ FixupCount(u) = 1 => u \notin placeheld_pagelets

\* A resolved pagelet is rendered again after its fixup.
C1_Witness ==
    \E u \in TriggeredPagelets :
        /\ FixupCount(u) = 1
        /\ last = [op |-> "write_pagelet_in_place", arg |-> u]

\* C2: pending-set invariant.  A pagelet is in the pending set if and only
\* if a placeholder marker for it has been written, directly or inside a
\* fixup payload, and no fixup for it has been emitted.
C2_PendingSetInvariant ==
    \A u \in Pagelet :
        u \in placeheld_pagelets <=> (MarkerCount(u) > 0 /\ FixupCount(u) = 0)

\* T2 is pending and its only marker is inside the payload of a fixup.
C2_Witness ==
    /\ "T2" \in placeheld_pagelets
    /\ \A jk \in MarkerOccurrences(pagelet_placeholder_indexes["T2"]) :
          IsFixupBlock(buffer[jk[1]])

\* C3: completeness.  When every Triggered pagelet is eventually signalled
\* and write_fixups keeps being called, the pending set eventually is empty
\* and stays empty.
C3_Completeness == <>[](placeheld_pagelets = {})

\* Everything is loaded, three pagelets were resolved, nothing is pending.
C3_Witness ==
    /\ \A p \in SessionTriggered : loaded[p] /\ FixupCount(p) = 1
    /\ placeheld_pagelets = {}

\* C4: index uniqueness and stability.  The index map is injective, a
\* lookup of a pagelet that has an index returns that index and changes
\* nothing, and no step changes or drops an assigned index.
IndexInjective ==
    \A u, v \in DOMAIN pagelet_placeholder_indexes :
        pagelet_placeholder_indexes[u] = pagelet_placeholder_indexes[v] => u = v

LookupStable ==
    \A u \in DOMAIN pagelet_placeholder_indexes :
        pagelet_placeholder_index(u, pagelet_placeholder_indexes,
                                  next_pagelet_placeholder_index)
          = [index |-> pagelet_placeholder_indexes[u],
             indexes |-> pagelet_placeholder_indexes,
             next |-> next_pagelet_placeholder_index]

C4_IndexUniqueStable ==
    [][/\ \A u \in DOMAIN pagelet_placeholder_indexes :
             /\ u \in DOMAIN pagelet_placeholder_indexes'
             /\ pagelet_placeholder_indexes'[u] = pagelet_placeholder_indexes[u]
       /\ IndexInjective'
       /\ LookupStable']_vars

\* The pagelet with index 0 was looked up a second time, after another
\* pagelet got an index.
C4_Witness ==
    \E u \in DOMAIN pagelet_placeholder_indexes :
        /\ pagelet_placeholder_indexes[u] = 0
        /\ next_pagelet_placeholder_index >= 2
        /\ last = [op |-> "write_pagelet_in_place", arg |-> u]
        /\ MarkerCount(u) = 2

\* C5: unique DOM identifiers.  No placeholder identifier occurs in more
\* than one placeholder marker of the output, counting the markers inside
\* fixup payloads.
C5_UniqueDOMIdentifiers ==
    \A i \in AssignedIndexes : Cardinality(MarkerOccurrences(i)) <= 1

\* C6: finalization check.  The end of the document is in the output only
\* when the pending set is empty, and a finalization with a non-empty
\* pending set raises and writes no closing markup.
EndOfDocumentWritten == \E j \in DOMAIN buffer : buffer[j] = end_of_document

C6_FinalizationCheck ==
    /\ EndOfDocumentWritten => placeheld_pagelets = {} /\ status = "closed"
    /\ (last.op = "finalize" /\ placeheld_pagelets # {}) =>
           status = "Fixups not all resolved" /\ ~EndOfDocumentWritten
    /\ (last.op = "finalize" /\ placeheld_pagelets = {}) =>
           status = "closed" /\ buffer[Len(buffer)] = end_of_document

\* The session was finalized with a pagelet pending.
C6_Witness ==
    /\ status = "Fixups not all resolved"
    /\ placeheld_pagelets # {}
    /\ last.op = "finalize"

\* C7: single pass.  Every fixup block a step appends to the output is
\* written by write_fixups for a pagelet that was pending and loaded when
\* the call began, so a pagelet that enters the pending set during the call
\* gets no fixup in it.  In Scenario C, the pass after set_loaded on T1
\* emits exactly one fixup and leaves exactly T2 pending.
ScenarioC_T1Ready ==
    /\ Len(buffer) = 1
    /\ placeheld_pagelets = {"T1"}
    /\ loaded["T1"] /\ ~loaded["T2"]
    /\ pagelet_placeholder_indexes = [u \in {"T1"} |-> 0]
    /\ buffer = <<placeholder_markup(0)>>

C7_SinglePass ==
    [][/\ \A j \in (Len(buffer) + 1)..Len(buffer') :
             IsFixupBlock(buffer'[j]) =>
                 /\ last'.op = "write_fixups"
                 /\ \E u \in placeheld_pagelets :
                       /\ is_content_loaded(u, loaded)
                       /\ u \in DOMAIN pagelet_placeholder_indexes
                       /\ IsFixupFor(buffer'[j], pagelet_placeholder_indexes[u])
       /\ \A u \in placeheld_pagelets' \ placeheld_pagelets : FixupCount(u)' = 0
       /\ (ScenarioC_T1Ready /\ last'.op = "write_fixups") =>
             /\ placeheld_pagelets' = {"T2"}
             /\ Len(buffer') = 2
             /\ FixupCount("T1")' = 1 /\ FixupCount("T2")' = 0]_vars

\* Scenario C after the first pass: one fixup, T2 pending.
C7_Witness ==
    /\ last.op = "write_fixups"
    /\ Len(buffer) = 2 /\ buffer[1] = placeholder_markup(0)
    /\ FixupCount("T1") = 1
    /\ placeheld_pagelets = {"T2"}

\* C8: idempotent no-op.  A write_fixups call made when no pending pagelet
\* is loaded leaves the output, the pending set, the index map and the
\* index counter as they were.
C8_IdempotentNoOp ==
    [][(last'.op = "write_fixups" /\ NoPendingLoaded) =>
          UNCHANGED <<buffer, placeheld_pagelets, pagelet_placeholder_indexes,
                      next_pagelet_placeholder_index>>]_vars

\* A pass ran with pagelets pending, none of them loaded.
C8_Witness ==
    /\ last.op = "write_fixups"
    /\ placeheld_pagelets # {}
    /\ NoPendingLoaded
    /\ \A j \in DOMAIN buffer : ~IsFixupBlock(buffer[j])

\* C9: transparency post-load.  For a loaded Triggered pagelet, in every
\* state of the writer and of the descendants, write_in_place gives the
\* result of the wrapped pagelet's write_in_place: the same bytes, pending
\* list and index state; the pagelet is not in the pending list and no
\* marker of its own is written.
C9_TransparencyPostLoad ==
    \A t \in TriggeredPagelets :
        loaded[t] =>
            LET own == write_in_place(t, <<>>, pagelet_placeholder_indexes,
                                      next_pagelet_placeholder_index, loaded)
                inner == write_in_place(Pagelets[t].pagelet, <<>>,
                                        pagelet_placeholder_indexes,
                                        next_pagelet_placeholder_index, loaded) IN
            /\ own = inner
            /\ \A k \in DOMAIN own.pending : own.pending[k] # t
            /\ t \in DOMAIN own.indexes =>
                  \A j \in DOMAIN own.buffer :
                      own.buffer[j] # placeholder_markup(own.indexes[t])

\* T1 was rendered while loaded, with its descendant T2 not loaded.
C9_Witness ==
    /\ last = [op |-> "write_pagelet_in_place", arg |-> "T1"]
    /\ loaded["T1"] /\ ~loaded["T2"]
    /\ "T2" \in placeheld_pagelets
    /\ buffer[Len(buffer) - 1] = encode(Pagelets["LitA"].html)

\* C10: script-safe encoding.  The string literal of every fixup block in
\* the output contains no "<".
C10_ScriptSafeEncoding ==
    \A j \in DOMAIN buffer :
        IsFixupBlock(buffer[j]) =>
            \A k \in DOMAIN FixupPayload(buffer[j]) : FixupPayload(buffer[j])[k] # "<"

\* A fixup was written for content that holds a closing script tag.
C10_Witness ==
    \E j \in DOMAIN buffer :
        /\ IsFixupBlock(buffer[j])
        /\ \E k \in 1..(Len(FixupPayload(buffer[j])) - 1) :
              /\ FixupPayload(buffer[j])[k] = "\\u003c"
              /\ FixupPayload(buffer[j])[k + 1] = "/script"

\* C11: a Triggered pagelet is a one-way two-state machine.  It starts not
\* loaded; no step of any operation takes a loaded pagelet back to not
\* loaded; set_loaded leaves its pagelet loaded, also when it already was,
\* changes the flag of no other pagelet, writes no output and changes neither
\* the pending set, the index map nor the index counter.
C11_OneWayLoaded ==
    [][/\ last.op = "init" => \A t \in TriggeredPagelets : ~loaded[t]
       /\ \A t \in TriggeredPagelets : loaded[t] => loaded'[t]
       /\ last'.op # "set_loaded" => loaded' = loaded
       /\ last'.op = "set_loaded" =>
             /\ loaded'[last'.arg]
             /\ \A t \in TriggeredPagelets \ {last'.arg} : loaded'[t] = loaded[t]
             /\ UNCHANGED <<buffer, placeheld_pagelets, pagelet_placeholder_indexes,
                            next_pagelet_placeholder_index>>]_vars

\* set_loaded was called on T1 after T1 had its fixup, while T2 was pending.
C11_Witness ==
    /\ last = [op |-> "set_loaded", arg |-> "T1"]
    /\ FixupCount("T1") = 1
    /\ "T2" \in placeheld_pagelets

\* C12: placeholder before fixup.  Every fixup block of the output names an
\* assigned index whose placeholder marker is in the output, and every
\* marker of that index is in a chunk written strictly before the fixup
\* block; this covers a marker that sits inside the payload of another
\* pagelet's fixup, which is then written strictly before.
C12_PlaceholderBeforeFixup ==
    \A j \in DOMAIN buffer :
        IsFixupBlock(buffer[j]) =>
            \E i \in AssignedIndexes :
                /\ IsFixupFor(buffer[j], i)
                /\ \E u \in DOMAIN pagelet_placeholder_indexes :
                      pagelet_placeholder_indexes[u] = i
                /\ MarkerOccurrences(i) # {}
                /\ \A at \in MarkerOccurrences(i) : at[1] < j

\* T2 has its fixup, and its only marker is in the payload of T1's fixup.
C12_Witness ==
    /\ FixupCount("T2") = 1 /\ FixupCount("T1") = 1
    /\ MarkerCount("T2") = 1
    /\ \A at \in MarkerOccurrences(pagelet_placeholder_indexes["T2"]) :
          IsFixupFor(buffer[at[1]], pagelet_placeholder_indexes["T1"])

\* The first place of the output where the marker of index i occurs.
FirstMarker(i) ==
    LET occurrences == MarkerOccurrences(i) IN
    CHOOSE at \in occurrences :
        \A other \in occurrences :
            at[1] < other[1] \/ (at[1] = other[1] /\ at[2] <= other[2])

\* The markers come first in the output in the order of their indices.
FirstMarkersInIndexOrder ==
    LET first == [i \in AssignedIndexes |-> FirstMarker(i)] IN
    \A i, k \in AssignedIndexes :
        i < k => \/ first[i][1] < first[k][1]
                 \/ first[i][1] = first[k][1] /\ first[i][2] < first[k][2]

\* C13: first-seen contiguous indices.  The counter starts at 0 and never
\* decreases; in every state the assigned indices are exactly 0 .. counter-1;
\* a pagelet first seen in a later step gets an index above every index
\* assigned before, and among all pagelets the one whose first marker comes
\* earlier in the output, in a render call or in a fixup payload, has the
\* smaller index.
C13_FirstSeenContiguous ==
    /\ [](/\ last.op = "init" => next_pagelet_placeholder_index = 0
          /\ {pagelet_placeholder_indexes[u] : u \in DOMAIN pagelet_placeholder_indexes}
                = 0..(next_pagelet_placeholder_index - 1)
          /\ \A i \in AssignedIndexes : MarkerOccurrences(i) # {}
          /\ FirstMarkersInIndexOrder)
    /\ [][/\ next_pagelet_placeholder_index' >= next_pagelet_placeholder_index
          /\ \A u \in DOMAIN pagelet_placeholder_indexes' :
                u \notin DOMAIN pagelet_placeholder_indexes =>
                    /\ pagelet_placeholder_indexes'[u] >= next_pagelet_placeholder_index
                    /\ \A v \in DOMAIN pagelet_placeholder_indexes :
                          pagelet_placeholder_indexes'[u] > pagelet_placeholder_indexes[v]]_vars

\* Three pagelets have indices; T2 was first seen in the payload of a fixup
\* and has the largest.
C13_Witness ==
    /\ next_pagelet_placeholder_index = 3
    /\ "T2" \in DOMAIN pagelet_placeholder_indexes
    /\ pagelet_placeholder_indexes["T2"] = 2
    /\ IsFixupBlock(buffer[FirstMarker(2)[1]])

\* What the children cs[k], cs[k+1], ... write, each into an empty buffer,
\* one after the other from the index state given.
RECURSIVE ChildResultsFrom(_, _, _, _)
ChildResultsFrom(cs, k, indexes, next) ==
    IF k > Len(cs) THEN <<>>
    ELSE Eval(write_in_place(cs[k], <<>>, indexes, next, loaded),
              LAMBDA r : <<r>> \o ChildResultsFrom(cs, k + 1, r.indexes, r.next))

\* What the children of the Multi pagelet m write in the present state.
ChildResults(m) ==
    ChildResultsFrom(Pagelets[m].pagelets, 1, pagelet_placeholder_indexes,
                     next_pagelet_placeholder_index)

\* The Multi pagelet m writes what its children write, in sequence order.
MultiWritesChildrenInOrder(m) ==
    LET rs == ChildResults(m)
        n == Len(rs)
        own == write_in_place(m, <<>>, pagelet_placeholder_indexes,
                              next_pagelet_placeholder_index, loaded) IN
    /\ n = Len(Pagelets[m].pagelets)
    /\ own.buffer = ConcatFrom([k \in 1..n |-> rs[k].buffer], 1)
    /\ own.pending = ConcatFrom([k \in 1..n |-> rs[k].pending], 1)
    /\ own.indexes = rs[n].indexes
    /\ own.next = rs[n].next

\* C14: only Triggered pagelets that are not loaded when written become
\* pending.  A Multi or Literal pagelet is never in the pending set, and a
\* pagelet enters the set only while not loaded; in every state the
\* write_in_place of a Multi pagelet of the session writes what its
\* children write, in sequence order, and returns their pending lists
\* concatenated in that order; the write_in_place of a Literal pagelet
\* returns its bytes and the empty list.
C14_OnlyUnloadedTriggeredPending ==
    /\ [](/\ \A u \in placeheld_pagelets : Pagelets[u].kind = "Triggered"
          /\ \A m \in SessionPagelets :
                Pagelets[m].kind = "Multi" => MultiWritesChildrenInOrder(m)
          /\ \A l \in SessionPagelets :
                Pagelets[l].kind = "Literal" =>
                    write_in_place(l, <<>>, pagelet_placeholder_indexes,
                                   next_pagelet_placeholder_index, loaded)
                      = [buffer |-> <<encode(Pagelets[l].html)>>, pending |-> <<>>,
                         indexes |-> pagelet_placeholder_indexes,
                         next |-> next_pagelet_placeholder_index])
    /\ [][\A u \in placeheld_pagelets' \ placeheld_pagelets :
              Pagelets[u].kind = "Triggered" /\ ~loaded[u]]_vars

\* The Multi pagelet D was rendered with both children not loaded: their
\* markers are in the output in sequence order and both are pending.
C14_Witness ==
    /\ last = [op |-> "write_pagelet_in_place", arg |-> "D"]
    /\ Len(buffer) = 2
    /\ placeheld_pagelets = {"T2", "T1"}
    /\ buffer = <<placeholder_markup(0), placeholder_markup(1)>>
    /\ pagelet_placeholder_indexes = [u \in {"T2", "T1"} |-> IF u = "T2" THEN 0 ELSE 1]

\* C16: the lookups of write_fixups never fail.  In every state every
\* pending pagelet has an entry in the index map, and no pass ever ends in
\* the KeyError that a missing entry, or the removal of a pagelet that is
\* not a member, raises.
C16_LookupsNeverFail ==
    /\ placeheld_pagelets \subseteq DOMAIN pagelet_placeholder_indexes
    /\ status # "KeyError"

\* A pass looked up and removed T1 and T3, which were both rendered
\* directly, and left the revealed T2 pending.
C16_Witness ==
    /\ last.op = "write_fixups"
    /\ Len(buffer) = 4
    /\ FixupCount("T1") = 1 /\ FixupCount("T3") = 1
    /\ IsFixupBlock(buffer[3]) /\ IsFixupBlock(buffer[4])
    /\ placeheld_pagelets = {"T2"}

\* C17: a pass leaves no loaded pagelet pending.  After a write_fixups
\* call no pending pagelet is loaded, so a second call made right after it,
\* with no set_loaded in between, emits nothing and changes nothing: one
\* pass gives the output and the pending set that repeated passes give.
C17_PassLeavesNoLoadedPending ==
    /\ [](last.op = "write_fixups" =>
             \A u \in placeheld_pagelets : ~is_content_loaded(u, loaded))
    /\ [][(last.op = "write_fixups" /\ last'.op = "write_fixups") =>
             UNCHANGED <<buffer, placeheld_pagelets, pagelet_placeholder_indexes,
                         next_pagelet_placeholder_index, status>>]_vars

\* A pass wrote the fixups of T1 and T2, which were both pending and
\* loaded, and left nothing pending.
C17_Witness ==
    /\ last.op = "write_fixups"
    /\ Len(buffer) = 4
    /\ buffer[1] = placeholder_markup(0) /\ buffer[2] = placeholder_markup(1)
    /\ FixupCount("T1") = 1 /\ FixupCount("T2") = 1
    /\ placeheld_pagelets = {}

\* The number of fixup blocks in the output.
NumFixups == Cardinality({j \in DOMAIN buffer : IsFixupBlock(buffer[j])})

\* The index map of do_GET once all its pagelets have been seen.
do_GET_indexes ==
    [u \in {"pagelet_b", "pagelet_b_1", "pagelet_b_2", "pagelet_b_3"} |->
        CASE u = "pagelet_b" -> 0
          [] u = "pagelet_b_1" -> 1
          [] u = "pagelet_b_2" -> 2
          [] u = "pagelet_b_3" -> 3]

\* C15: the session of do_GET.  After the three render calls pagelet_b
\* alone is pending, with index 0; after set_loaded on pagelet_b and one
\* pass, pagelet_b_1, pagelet_b_2 and pagelet_b_3 are pending with indices
\* 1, 2 and 3; each of the next three passes writes one fixup, for
\* pagelet_b_3, pagelet_b_2 and pagelet_b_1 in that order; four fixups are
\* written in total, the pending set is empty at the final check and the
\* exception is not raised.
C15_ReferenceSession ==
    /\ status # "Fixups not all resolved" /\ status # "KeyError"
    /\ last = [op |-> "write_pagelet_in_place", arg |-> "pagelet_c"] =>
          /\ placeheld_pagelets = {"pagelet_b"}
          /\ pagelet_placeholder_indexes = [u \in {"pagelet_b"} |-> 0]
          /\ Len(buffer) = NumSpans + 4
          /\ buffer[NumSpans + 3] = placeholder_markup(0)
          /\ NumFixups = 0
    /\ (last.op = "write_fixups" /\ ~loaded["pagelet_b_3"]) =>
          /\ placeheld_pagelets = {"pagelet_b_1", "pagelet_b_2", "pagelet_b_3"}
          /\ pagelet_placeholder_indexes = do_GET_indexes
          /\ Len(buffer) = NumSpans + 5
          /\ IsFixupFor(buffer[NumSpans + 5], 0)
          /\ NumFixups = 1
    /\ (last.op = "write_fixups" /\ loaded["pagelet_b_3"] /\ ~loaded["pagelet_b_2"]) =>
          /\ placeheld_pagelets = {"pagelet_b_1", "pagelet_b_2"}
          /\ Len(buffer) = NumSpans + 6
          /\ IsFixupFor(buffer[NumSpans + 6], 3)
          /\ NumFixups = 2
    /\ (last.op = "write_fixups" /\ loaded["pagelet_b_2"] /\ ~loaded["pagelet_b_1"]) =>
          /\ placeheld_pagelets = {"pagelet_b_1"}
          /\ Len(buffer) = NumSpans + 7
          /\ IsFixupFor(buffer[NumSpans + 7], 2)
          /\ NumFixups = 3
    /\ (last.op \in {"write_fixups", "finalize"} /\ loaded["pagelet_b_1"]) =>
          /\ placeheld_pagelets = {}
          /\ pagelet_placeholder_indexes = do_GET_indexes
          /\ IsFixupFor(buffer[NumSpans + 8], 1)
          /\ NumFixups = 4
    /\ last.op = "finalize" =>
          /\ status = "closed"
          /\ Len(buffer) = NumSpans + 9
          /\ buffer[NumSpans + 9] = end_of_document

\* do_GET has run to its end.
C15_Witness ==
    /\ last.op = "finalize"
    /\ status = "closed"
    /\ NumFixups = 4
    /\ \A u \in {"pagelet_b", "pagelet_b_1", "pagelet_b_2", "pagelet_b_3"} : loaded[u]

\* C18: set_loaded interleaved with the steps of a pass.  With set_loaded
\* calls in between any two steps of write_fixups, no pagelet ever has more
\* than one fixup block, the payload of a pagelet's fixup never contains a
\* marker of that pagelet, no lookup or removal of the pass fails, and when
\* no pass is running every pagelet that has a marker in the output and no
\* fixup is pending.
C18_InterleavedSetLoaded ==
    /\ status # "KeyError"
    /\ \A u \in DOMAIN pagelet_placeholder_indexes :
          LET markers == MarkerOccurrences(pagelet_placeholder_indexes[u])
              fixups == FixupBlocks(pagelet_placeholder_indexes[u]) IN
          /\ Cardinality(fixups) <= 1
          /\ \A j \in fixups : \A at \in markers : at[1] # j
          /\ (pass.pc = "idle" /\ markers # {} /\ fixups = {}) => u \in placeheld_pagelets

\* T2 was signalled during the pass that wrote T1's fixup, after the pass
\* had read its flag for the last time: its marker is in the payload of
\* T1's fixup, and at the end of the pass T2 is loaded and pending.
C18_Witness ==
    /\ pass.pc = "idle"
    /\ last.op = "write_fixups"
    /\ loaded["T2"] /\ "T2" \in placeheld_pagelets
    /\ FixupCount("T1") = 1 /\ FixupCount("T2") = 0
    /\ \E at \in MarkerOccurrences(pagelet_placeholder_indexes["T2"]) :
          IsFixupFor(buffer[at[1]], pagelet_placeholder_indexes["T1"])
====
